---- MODULE Spec2Model ----
(***************************************************************************)
(* Simple GPS Map Camera (src/app.py): a Streamlit script that is re-run   *)
(* from its first line on every widget event.  A run parses the           *)
(* coordinate box, picks the base image and, when Generate was clicked,    *)
(* reverse-geocodes, fetches a static map and composites a caption band    *)
(* and a map inset onto the photo.                                         *)
(*                                                                         *)
(* Texts typed by the user are sequences of one-character strings (they    *)
(* are split, stripped and parsed); texts the script produces are strings. *)
(* A run is taken to completion before the next widget event is served.    *)
(***************************************************************************)
EXTENDS Integers, Sequences, FiniteSets, TLC

\* ---------------------------------------------------------------- bounds
\* Longest coordinate text the user types key by key.
MaxLen == 3
\* Largest image height of the layout specification (heights 1..MaxH).
MaxH == 50
\* Largest side of a small map thumbnail the tile server may answer with.
MaxThumb == 3
\* Largest text height a font measurement may return (heights 1..MaxTextH).
MaxTextH == 2

\* ------------------------------------------------------ program constants
padding == 18
border == 4
map_x == 12
TitleGutter == 8
LineGutter == 4
BandPercent == 22
ThumbSize == 160

None == [kind |-> "None"]

\* --------------------------------------------------------- text helpers
Digits == {"0", "1", "2", "3", "4", "5", "6", "7", "8", "9"}

DigitVal(c) ==
  CASE c = "0" -> 0 [] c = "1" -> 1 [] c = "2" -> 2 [] c = "3" -> 3
    [] c = "4" -> 4 [] c = "5" -> 5 [] c = "6" -> 6 [] c = "7" -> 7
    [] c = "8" -> 8 [] c = "9" -> 9

DigitStr(d) ==
  CASE d = 0 -> "0" [] d = 1 -> "1" [] d = 2 -> "2" [] d = 3 -> "3"
    [] d = 4 -> "4" [] d = 5 -> "5" [] d = 6 -> "6" [] d = 7 -> "7"
    [] d = 8 -> "8" [] d = 9 -> "9"

RECURSIVE Pow10(_)
Pow10(n) == IF n = 0 THEN 1 ELSE 10 * Pow10(n - 1)

\* str.split(","): one more piece than there are commas.
RECURSIVE SplitFrom(_, _)
SplitFrom(s, cur) ==
  IF s = <<>> THEN <<cur>>
  ELSE IF Head(s) = "," THEN <<cur>> \o SplitFrom(Tail(s), <<>>)
  ELSE SplitFrom(Tail(s), Append(cur, Head(s)))

Split(s) == SplitFrom(s, <<>>)

\* str.strip(): leading and trailing blanks removed.
RECURSIVE LStrip(_)
LStrip(s) == IF s # <<>> /\ Head(s) = " " THEN LStrip(Tail(s)) ELSE s

RECURSIVE RStrip(_)
RStrip(s) ==
  IF s # <<>> /\ s[Len(s)] = " " THEN RStrip(SubSeq(s, 1, Len(s) - 1)) ELSE s

Strip(s) == RStrip(LStrip(s))

AllDigits(s) == \A i \in DOMAIN s : s[i] \in Digits

\* Position of the first "." of s, or 0.
DotPos(s) ==
  IF \E i \in DOMAIN s : s[i] = "."
  THEN CHOOSE i \in DOMAIN s : s[i] = "." /\ \A j \in 1..(i - 1) : s[j] # "."
  ELSE 0

Unsigned(t) == IF t # <<>> /\ Head(t) \in {"-", "+"} THEN Tail(t) ELSE t

IntPart(u) == IF DotPos(u) = 0 THEN u ELSE SubSeq(u, 1, DotPos(u) - 1)

FracPart(u) == IF DotPos(u) = 0 THEN <<>> ELSE SubSeq(u, DotPos(u) + 1, Len(u))

\* The decimal literals float() accepts: [sign] digits [. [digits]] | [sign] . digits
IsFloatLiteral(t) ==
  LET u == Unsigned(t)
  IN  /\ AllDigits(IntPart(u))
      /\ AllDigits(FracPart(u))
      /\ Len(IntPart(u)) + Len(FracPart(u)) >= 1

RECURSIVE DigitsVal(_)
DigitsVal(s) ==
  IF s = <<>> THEN 0 ELSE 10 * DigitsVal(SubSeq(s, 1, Len(s) - 1)) + DigitVal(s[Len(s)])

\* A float is kept as its sign and its magnitude in millionths; the sign is a
\* field of its own because float("-0") is -0.0.
FloatOf(t) ==
  LET u == Unsigned(t)
      f == FracPart(u)
  IN  [kind |-> "float",
       neg |-> (t # <<>> /\ Head(t) = "-"),
       micro |-> DigitsVal(IntPart(u)) * Pow10(6) + DigitsVal(f) * Pow10(6 - Len(f))]

RECURSIVE NatStr(_)
NatStr(n) == IF n < 10 THEN DigitStr(n) ELSE NatStr(n \div 10) \o DigitStr(n % 10)

RECURSIVE PadStr(_, _)
PadStr(n, width) ==
  IF width = 0 THEN "" ELSE PadStr(n \div 10, width - 1) \o DigitStr(n % 10)

\* f"{x:.6f}"
Fmt6(x) ==
  (IF x.neg THEN "-" ELSE "") \o NatStr(x.micro \div Pow10(6)) \o "."
    \o PadStr(x.micro % Pow10(6), 6)

\* ------------------------------------------------------------ the state
VARIABLES
  coords_text,     \* value of the "Coordinates (lat,lon)" text input
  uploaded_file,   \* value of the file uploader: None or the file's content
  pc,              \* "idle" between runs, else the next step of a generation
  clicked,         \* the button whose click started the last run ("none": a widget edit)
  lat, lon,        \* the script's lat and lon after its parse
  uploaded,        \* the script's variable uploaded when it reaches Generate
  errors,          \* the st.error messages the last run showed
  img,             \* the opened base image, None before it is opened
  r,               \* the geocoding call's outcome, None before the call
  address,         \* the script's variable address
  rr,              \* the map fetch's outcome, None before the call
  map_img,         \* the decoded map thumbnail, None when there is none
  geo_calls,       \* requests to the geocoder made by the last run
  map_calls,       \* requests to the tile server made by the last run
  out              \* what the last run drew and offered for download, else None

vars == <<coords_text, uploaded_file, pc, clicked, lat, lon, uploaded, errors,
          img, r, address, rr, map_img, geo_calls, map_calls, out>>

\* ------------------------------------------------------ the coordinates
\* (mutant) lat and lon survive from the run before, as session state would.
StaleCoords == [lat |-> lat, lon |-> lon]

\* Line 83: both names are bound to None at the top of every run.
UnsetCoords == [lat |-> None, lon |-> None]

\* Lines 83-89.  The unpacking fails unless split yields two pieces;
\* lat is assigned before float(lon_s) is tried.
ParseCoords(text) ==
  IF text = <<>> THEN [lat |-> UnsetCoords.lat, lon |-> UnsetCoords.lon, error |-> FALSE]
  ELSE LET parts == Split(text)
       IN  IF Len(parts) # 2
           THEN [lat |-> UnsetCoords.lat, lon |-> UnsetCoords.lon, error |-> TRUE]
           ELSE LET lat_s == Strip(parts[1])
                    lon_s == Strip(parts[2])
                IN  IF ~IsFloatLiteral(lat_s)
                    THEN [lat |-> UnsetCoords.lat, lon |-> UnsetCoords.lon, error |-> TRUE]
                    ELSE IF ~IsFloatLiteral(lon_s)
                    THEN [lat |-> FloatOf(lat_s), lon |-> UnsetCoords.lon, error |-> TRUE]
                    ELSE [lat |-> FloatOf(lat_s), lon |-> FloatOf(lon_s), error |-> FALSE]

\* ------------------------------------------------------------ the image
Garbage == [kind |-> "garbage"]

ImageFile(w, h) == [kind |-> "image", w |-> w, h |-> h]

\* Lines 117-124.  The text area exists only inside the button's branch; d is
\* the value the front end reports for it in the run of the click (the
\* framework ordinarily reports the default, the empty text).
LoadCaptured(d, current) ==
  IF d.kind = "empty" THEN [uploaded |-> current, error |-> FALSE, loaded |-> FALSE]
  ELSE IF ~d.comma \/ ~d.base64
  THEN [uploaded |-> current, error |-> TRUE, loaded |-> FALSE]
  ELSE [uploaded |-> d.payload, error |-> FALSE, loaded |-> TRUE]

\* Lines 130-141: the checks Generate makes before any generation step.
GenerateStart(up, la, lo) ==
  IF up = None
  THEN [go |-> FALSE, img |-> None, error |-> "Please upload or capture an image first."]
  ELSE IF la = None \/ lo = None
  THEN [go |-> FALSE, img |-> None,
        error |-> "Please provide coordinates (paste or use detected coords)."]
  ELSE IF up.kind # "image"
  THEN [go |-> FALSE, img |-> None, error |-> "Could not open image"]
  ELSE [go |-> TRUE, img |-> [w |-> up.w, h |-> up.h, mode |-> "RGB"], error |-> ""]

\* One run of the script, from line 1 to the point where it either ends or
\* is about to make its first request.  click is the button that is True in
\* this run; d is the data URL text (read only when click = "load").
Run(click, d) ==
  LET p  == ParseCoords(coords_text')
      ld == IF click = "load" THEN LoadCaptured(d, uploaded_file')
            ELSE [uploaded |-> uploaded_file', error |-> FALSE, loaded |-> FALSE]
      g  == IF click = "generate" THEN GenerateStart(ld.uploaded, p.lat, p.lon)
            ELSE [go |-> FALSE, img |-> None, error |-> ""]
  IN  /\ clicked' = click
      /\ lat' = p.lat
      /\ lon' = p.lon
      /\ uploaded' = ld.uploaded
      /\ errors' = (IF p.error THEN {"Could not parse coordinates. Use format: lat,lon"} ELSE {})
                   \cup (IF ld.error THEN {"Invalid dataURL"} ELSE {})
                   \cup (IF g.error # "" THEN {g.error} ELSE {})
      /\ img' = g.img
      /\ pc' = IF g.go THEN "geocode" ELSE "idle"
      /\ r' = None
      /\ address' = ""
      /\ rr' = None
      /\ map_img' = None
      /\ geo_calls' = 0
      /\ map_calls' = 0
      /\ out' = None

\* ------------------------------------------------------ the two requests
\* What requests.get can come back with: an exception, or a response whose
\* status the script never looks at.
NetworkError == [kind |-> "error"]

Timeout == [kind |-> "timeout"]

Response(status, body) == [kind |-> "response", status |-> status, body |-> body]

JsonObject(has_name, name) ==
  [kind |-> "object", has_name |-> has_name, display_name |-> name]

\* Lines 144-154: r.json() raises on a body that is not JSON, .get raises on
\* a JSON value that is no object; the bare except turns both into "".
AddressOf(resp) ==
  IF resp.kind # "response" THEN ""
  ELSE IF resp.body.kind # "object" THEN ""
  ELSE IF resp.body.has_name THEN resp.body.display_name
  ELSE ""

\* (mutant) a request that raised is made again.
AfterGeocodeRetry(resp) == IF resp.kind # "response" THEN "geocode" ELSE "mapfetch"

\* Line 154 falls through to line 156: the map is fetched next, whatever the
\* geocoder answered.
AfterGeocode(resp) == "mapfetch"

\* Lines 157-163: Image.open raises on a body that is no image.
MapImageOf(resp) ==
  IF resp.kind # "response" THEN None
  ELSE IF resp.body.kind # "image" THEN None
  ELSE [w |-> resp.body.w, h |-> resp.body.h, mode |-> "RGBA"]

\* Line 163 falls through to line 165.
AfterMapFetch(resp) == "compose"

\* ------------------------------------------------------------ the layout
\* Image.convert, Image.new(mode, size), Image.alpha_composite and
\* Image.paste, as far as the size of their result goes.
Convert(im, mode) == [w |-> im.w, h |-> im.h, mode |-> mode]

ImageNew(mode, w, h) == [w |-> w, h |-> h, mode |-> mode]

AlphaComposite(im1, im2) == [w |-> im1.w, h |-> im1.h, mode |-> im1.mode]

\* (mutant) the canvas grows to hold all of src.
PasteExpanding(im, src, x, y) ==
  [w |-> IF x + src.w > im.w THEN x + src.w ELSE im.w,
   h |-> IF y + src.h > im.h THEN y + src.h ELSE im.h,
   mode |-> im.mode]

\* paste writes the part of src that falls inside im and leaves im's size.
Paste(im, src, x, y) == [w |-> im.w, h |-> im.h, mode |-> im.mode]

Max(a, b) == IF a >= b THEN a ELSE b

Min(a, b) == IF a <= b THEN a ELSE b

\* The pixels of im a paste of src at (x, y) touches: x0 <= x < x1, y0 <= y < y1.
PastedBox(im, src, x, y) ==
  [x0 |-> Max(0, x), y0 |-> Max(0, y),
   x1 |-> Min(im.w, x + src.w), y1 |-> Min(im.h, y + src.h)]

\* (mutant) the address is the title even when it is empty.
TitleAlwaysAddress(addr, la, lo) == addr

\* Line 180.
TitleOf(addr, la, lo) ==
  IF addr # "" THEN addr ELSE "Lat " \o Fmt6(la) \o ", Lon " \o Fmt6(lo)

\* Line 181, split at its newline as line 196 does.
SubtitleOf(la, lo, now) == <<"Lat " \o Fmt6(la) \o "  Lon " \o Fmt6(lo), now>>

\* (mutant) round(H * 0.22) in place of int(H * 0.22).
BoxHRounded(H) == (H * BandPercent + 50) \div 100

\* Line 184: int(H * 0.22).  The double nearest 0.22 lies above 0.22 by about
\* 1e-17, and for every H below 2^31 the rounded product truncates to the
\* integer part of 22*H/100.
BoxH(H) == (H * BandPercent) \div 100

\* Line 195.
YSub(H, box_h, title_h) == H - box_h + padding + (title_h + TitleGutter)

\* Line 197: line i (from 0) is drawn at y_sub + i * (its own height + 4).
LineY(y_sub, i, line_h) == y_sub + i * (line_h + LineGutter)

\* (mutant) half the height of the bordered inset.
MapYCentered(H, box_h, thumb_h) == H - box_h - (thumb_h + 2 * border) \div 2

\* Line 206.
MapY(H, box_h, thumb_h) == H - box_h - thumb_h \div 2

\* Lines 166-216.  title_h and line_h are what getsize measures for the
\* title (big font) and for each subtitle line (small font).
ComposeResult(now, title_h, line_h) ==
  LET W        == img.w
      H        == img.h
      out0     == Convert(img, "RGBA")
      title    == TitleOf(address, lat, lon)
      subtitle == SubtitleOf(lat, lon, now)
      box_h    == BoxH(H)
      overlay  == ImageNew("RGBA", out0.w, out0.h)
      out1     == AlphaComposite(out0, overlay)
      y_sub    == YSub(H, box_h, title_h)
      bg       == ImageNew("RGBA", map_img.w + border * 2, map_img.h + border * 2)
      map_y    == MapY(H, box_h, map_img.h)
      out2     == IF map_img # None THEN Paste(out1, bg, map_x, map_y) ELSE out1
      final    == Convert(out2, "RGB")
  IN  [kind |-> "stamped",
       final |-> final,
       download |-> "stamped.jpg",
       title |-> title,
       subtitle |-> subtitle,
       box_h |-> box_h,
       band |-> [x0 |-> 0, y0 |-> H - box_h, x1 |-> W, y1 |-> H],
       title_pos |-> <<padding, H - box_h + padding>>,
       title_h |-> title_h,
       line_h |-> line_h,
       line_pos |-> [i \in 1..2 |-> <<padding, LineY(y_sub, i - 1, line_h[i])>>],
       inset |-> IF map_img # None
                 THEN [kind |-> "inset", x |-> map_x, y |-> map_y, w |-> bg.w, h |-> bg.h,
                       thumb_h |-> map_img.h,
                       box |-> PastedBox(out1, bg, map_x, map_y)]
                 ELSE None]

\* -------------------------------------------------- what the world offers
\* Keys of the coordinate box.
Alphabet == {"1", ".", ",", " ", "x"}

\* The text after one more key, or after backspace.
Keystrokes(text) ==
  (IF Len(text) < MaxLen THEN {Append(text, c) : c \in Alphabet} ELSE {})
    \cup (IF text # <<>> THEN {SubSeq(text, 1, Len(text) - 1)} ELSE {})

\* Texts pasted whole: the example of line 59 and one with blanks, a sign and
\* a bare trailing point.
PastedTexts ==
  { <<"2", "4", ".", "4", "6", "1", "9", "6", ",", "7", "2", ".", "7", "7", "0", "4", "5">>,
    <<" ", "-", "0", ".", "5", ",", " ", "1", ".", " ">> }

Files == {Garbage, ImageFile(800, 600)}

LayoutFiles ==
  {ImageFile(800, h) : h \in 1..MaxH} \cup {ImageFile(800, 600), ImageFile(8, 600)}

\* The capture canvas is 320 by 240 (line 101).
DataUrls ==
  { [kind |-> "empty"],
    [kind |-> "text", comma |-> FALSE, base64 |-> FALSE, payload |-> Garbage],
    [kind |-> "text", comma |-> TRUE, base64 |-> FALSE, payload |-> Garbage],
    [kind |-> "text", comma |-> TRUE, base64 |-> TRUE, payload |-> ImageFile(320, 240)] }

GeoBodies ==
  { [kind |-> "notjson"], [kind |-> "array"],
    JsonObject(FALSE, ""), JsonObject(TRUE, ""), JsonObject(TRUE, "Springfield") }

GeoOutcomes ==
  {NetworkError, Timeout} \cup {Response(st, b) : st \in {200, 500}, b \in GeoBodies}

LayoutGeoOutcomes == {NetworkError, Response(200, JsonObject(TRUE, "Test Address"))}

MapBody(w, h) == [kind |-> "image", w |-> w, h |-> h]

MapOutcomes ==
  {NetworkError, Timeout}
    \cup {Response(st, b) : st \in {200, 404},
                            b \in {[kind |-> "notimage"], MapBody(ThumbSize, ThumbSize)}}

LayoutMapOutcomes ==
  {NetworkError}
    \cup {Response(200, MapBody(t, t)) : t \in (1..MaxThumb) \cup {ThumbSize}}

Timestamps == {"01/11/2026 06:17 PM"}

\* What getsize may measure: a height for the title and one for each line.
Measurements == [title_h : 1..MaxTextH, line_h : [1..2 -> 1..MaxTextH]]

OneMeasurement == {[title_h |-> MaxTextH, line_h |-> [i \in 1..2 |-> MaxTextH]]}

\* ------------------------------------------------------------- the actions
Init ==
  /\ coords_text = <<>>
  /\ uploaded_file = None
  /\ pc = "idle"
  /\ clicked = "none"
  /\ lat = None
  /\ lon = None
  /\ uploaded = None
  /\ errors = {}
  /\ img = None
  /\ r = None
  /\ address = ""
  /\ rr = None
  /\ map_img = None
  /\ geo_calls = 0
  /\ map_calls = 0
  /\ out = None

NoData == [kind |-> "empty"]

\* The coordinate box is committed with a new text (line 80).
EditCoords(t) ==
  /\ pc = "idle"
  /\ coords_text' = t
  /\ uploaded_file' = uploaded_file
  /\ Run("none", NoData)

TypeCoords == \E t \in Keystrokes(coords_text) : EditCoords(t)

PasteCoords == \E t \in PastedTexts : t # coords_text /\ EditCoords(t)

\* A file is chosen in, or removed from, the uploader (line 95).
UploadFile(f) ==
  /\ pc = "idle"
  /\ f # uploaded_file
  /\ uploaded_file' = f
  /\ coords_text' = coords_text
  /\ Run("none", NoData)

\* Lines 55-57 and 62-78: both buttons only inject JavaScript into the page.
ClickFetchLocation ==
  /\ pc = "idle"
  /\ UNCHANGED <<coords_text, uploaded_file>>
  /\ Run("fetch", NoData)

ClickUseDetected ==
  /\ pc = "idle"
  /\ UNCHANGED <<coords_text, uploaded_file>>
  /\ Run("use", NoData)

\* Lines 117-124.
ClickLoadCaptured(d) ==
  /\ pc = "idle"
  /\ UNCHANGED <<coords_text, uploaded_file>>
  /\ Run("load", d)

\* Lines 130-141.
ClickGenerate ==
  /\ pc = "idle"
  /\ UNCHANGED <<coords_text, uploaded_file>>
  /\ Run("generate", NoData)

\* Lines 143-154.
ReverseGeocode(resp) ==
  /\ pc = "geocode"
  /\ geo_calls' = geo_calls + 1
  /\ r' = resp
  /\ address' = AddressOf(resp)
  /\ pc' = AfterGeocode(resp)
  /\ UNCHANGED <<coords_text, uploaded_file, clicked, lat, lon, uploaded, errors,
                 img, rr, map_img, map_calls, out>>

\* Lines 156-163.
FetchMap(resp) ==
  /\ pc = "mapfetch"
  /\ map_calls' = map_calls + 1
  /\ rr' = resp
  /\ map_img' = MapImageOf(resp)
  /\ pc' = AfterMapFetch(resp)
  /\ UNCHANGED <<coords_text, uploaded_file, clicked, lat, lon, uploaded, errors,
                 img, r, address, geo_calls, out>>

\* Lines 165-216.
Compose(now, m) ==
  /\ pc = "compose"
  /\ out' = ComposeResult(now, m.title_h, m.line_h)
  /\ pc' = "idle"
  /\ UNCHANGED <<coords_text, uploaded_file, clicked, lat, lon, uploaded, errors,
                 img, r, address, rr, map_img, geo_calls, map_calls>>

Upload == \E f \in Files \cup {None} : UploadFile(f)

LoadCapturedImage == \E d \in DataUrls : ClickLoadCaptured(d)

Geocode == \E resp \in GeoOutcomes : ReverseGeocode(resp)

MapFetch == \E resp \in MapOutcomes : FetchMap(resp)

Stamp == \E now \in Timestamps, m \in OneMeasurement : Compose(now, m)

Next ==
  \/ TypeCoords
  \/ PasteCoords
  \/ Upload
  \/ ClickFetchLocation
  \/ ClickUseDetected
  \/ LoadCapturedImage
  \/ ClickGenerate
  \/ Geocode
  \/ MapFetch
  \/ Stamp

Spec == Init /\ [][Next]_vars

\* The same program with the coordinates pasted and the photos, thumbnails
\* and font measurements ranging over sizes: the layout arithmetic.
\* One photo is uploaded, once.
LayoutUpload == uploaded_file = None /\ \E f \in LayoutFiles : UploadFile(f)

LayoutGeocode == \E resp \in LayoutGeoOutcomes : ReverseGeocode(resp)

LayoutMapFetch == \E resp \in LayoutMapOutcomes : FetchMap(resp)

LayoutStamp == \E now \in Timestamps, m \in Measurements : Compose(now, m)

NextLayout ==
  \/ PasteCoords
  \/ LayoutUpload
  \/ ClickGenerate
  \/ LayoutGeocode
  \/ LayoutMapFetch
  \/ LayoutStamp

SpecLayout == Init /\ [][NextLayout]_vars

\* ------------------------------------------------------------ the claims
CommaCount(text) == Cardinality({i \in DOMAIN text : text[i] = ","})

CommaAt(text) == CHOOSE i \in DOMAIN text : text[i] = ","

Numeric(tok) == IsFloatLiteral(Strip(tok))

FirstNumeric(text) ==
  CommaCount(text) = 1 /\ Numeric(SubSeq(text, 1, CommaAt(text) - 1))

SecondNumeric(text) ==
  CommaCount(text) = 1 /\ Numeric(SubSeq(text, CommaAt(text) + 1, Len(text)))

\* No comma, more than one comma, or a token that is not a number.
Malformed(text) ==
  text # <<>> /\ (CommaCount(text) # 1 \/ ~FirstNumeric(text) \/ ~SecondNumeric(text))

ParseErrorShown == "Could not parse coordinates. Use format: lat,lon" \in errors

NoGenerationStep ==
  /\ pc = "idle"
  /\ img = None
  /\ r = None
  /\ rr = None
  /\ geo_calls = 0
  /\ map_calls = 0
  /\ out = None

\* C1 as stated: with a malformed coordinate text the parse fails, lat and lon
\* are both unset, and a Generate click in that run does no generation step.
C1_MalformedLeavesBothUnset ==
  Malformed(coords_text) =>
    /\ ParseErrorShown
    /\ lat = None
    /\ lon = None
    /\ (clicked = "generate" => NoGenerationStep)

\* C1 amended: with a malformed coordinate text the parse fails, lon is unset,
\* lat is set only when the text has one comma and a numeric first token, and
\* a Generate click in that run does no generation step, whatever ran before.
C1_MalformedNeverGenerates ==
  Malformed(coords_text) =>
    /\ ParseErrorShown
    /\ lon = None
    /\ (lat # None <=> FirstNumeric(coords_text))
    /\ (clicked = "generate" => NoGenerationStep)

\* C1 witness: Generate was clicked with a photo in place and a text whose
\* first token alone is numeric.
C1_Witness ==
  /\ Malformed(coords_text)
  /\ clicked = "generate"
  /\ uploaded # None
  /\ uploaded.kind = "image"
  /\ lat # None
  /\ errors = {"Could not parse coordinates. Use format: lat,lon",
               "Please provide coordinates (paste or use detected coords)."}

CoordinateTitle == "Lat " \o Fmt6(lat) \o ", Lon " \o Fmt6(lon)

GeocodeFailed(resp) ==
  resp.kind \in {"error", "timeout"} \/ (resp.kind = "response" /\ resp.status # 200)

\* C2: when reverse geocoding failed (network error, timeout or a status other
\* than 200), the stamped image's title is the coordinate-only string.
C2_FailedGeocodeGivesCoordinateTitle ==
  (out # None /\ GeocodeFailed(r)) => out.title = CoordinateTitle

MapFetchFailed(resp) ==
  \/ resp.kind \in {"error", "timeout"}
  \/ resp.kind = "response" /\ (resp.status # 200 \/ resp.body.kind # "image")

\* C3: when the map fetch failed (network error, timeout, a status other than
\* 200, or an undecodable body), the stamped image is produced without inset.
C3_FailedMapFetchOmitsInset ==
  /\ (pc = "compose" /\ MapFetchFailed(rr)) => map_img = None
  /\ (out # None /\ MapFetchFailed(rr)) => out.inset = None

GeocoderGaveName(resp) ==
  /\ resp.kind = "response"
  /\ resp.body.kind = "object"
  /\ resp.body.has_name
  /\ resp.body.display_name # ""

ExampleText ==
  <<"2", "4", ".", "4", "6", "1", "9", "6", ",", "7", "2", ".", "7", "7", "0", "4", "5">>

SignedText == <<" ", "-", "0", ".", "5", ",", " ", "1", ".", " ">>

\* C4: the title is the geocoder's display_name when it gave a non-empty one,
\* and otherwise "Lat X, Lon Y" with six decimals each; for the two pasted
\* texts that is "Lat 24.461960, Lon 72.770450" and "Lat -0.500000, Lon 1.000000".
C4_TitleIsAddressOrCoordinates ==
  out # None =>
    /\ out.title = IF GeocoderGaveName(r) THEN r.body.display_name ELSE CoordinateTitle
    /\ (coords_text = ExampleText /\ ~GeocoderGaveName(r))
         => out.title = "Lat 24.461960, Lon 72.770450"
    /\ (coords_text = SignedText /\ ~GeocoderGaveName(r))
         => out.title = "Lat -0.500000, Lon 1.000000"

\* C4 witness: a stamped image whose geocoder answered an empty display_name.
C4_Witness ==
  /\ out # None
  /\ r.kind = "response"
  /\ r.body.kind = "object"
  /\ r.body.has_name
  /\ r.body.display_name = ""
  /\ coords_text = SignedText
  /\ out.title = "Lat -0.500000, Lon 1.000000"

\* C5: the band's height is 22% of the image height rounded down, it spans
\* the full width and ends at the bottom edge; for H = 600 it is 132.
C5_BandHeight ==
  out # None =>
    /\ 100 * out.box_h <= 22 * img.h
    /\ 22 * img.h < 100 * (out.box_h + 1)
    /\ out.band = [x0 |-> 0, y0 |-> img.h - out.box_h, x1 |-> img.w, y1 |-> img.h]
    /\ (img.h = 600 => out.box_h = 132)

\* C5 witness: the 800 by 600 photo stamped with a band of 132 rows.
C5_Witness == out # None /\ img.w = 800 /\ img.h = 600 /\ out.box_h = 132

\* C6: the stamped image has the width and height of the opened photo, with
\* or without address, with or without inset.
C6_OutputSize ==
  out # None => (out.final.w = img.w /\ out.final.h = img.h /\ out.final.mode = "RGB")

\* C6 witness: an inset was pasted that reaches past the top and the bottom
\* edge of the photo, under an address the geocoder found.
C6_Witness ==
  /\ out # None
  /\ out.inset # None
  /\ out.inset.y < 0
  /\ out.inset.y + out.inset.h > img.h
  /\ out.title = "Test Address"

CapturedPhoto == ImageFile(320, 240)

\* C7: once a run has loaded the captured photo and coordinates are valid, a
\* Generate click stamps that photo.
C7_CapturedPhotoIsStamped ==
  [][(/\ clicked = "load"
      /\ uploaded = CapturedPhoto
      /\ lat # None
      /\ lon # None
      /\ clicked' = "generate")
     => (/\ pc' = "geocode"
         /\ img' = [w |-> 320, h |-> 240, mode |-> "RGB"])]_vars

\* C8: a generation asks the geocoder once and then the tile server once,
\* whatever the first request came back with; nothing is asked again.
C8_OneAttemptEach ==
  /\ pc = "geocode" => (geo_calls = 0 /\ map_calls = 0)
  /\ pc = "mapfetch" => (geo_calls = 1 /\ map_calls = 0)
  /\ pc = "compose" => (geo_calls = 1 /\ map_calls = 1)
  /\ out # None => (geo_calls = 1 /\ map_calls = 1)
  /\ (pc = "idle" /\ out = None) => (geo_calls = 0 /\ map_calls = 0)

\* C8 witness: a stamped image after both requests failed.
C8_Witness ==
  /\ out # None
  /\ r.kind = "timeout"
  /\ rr.kind = "error"
  /\ geo_calls = 1
  /\ map_calls = 1

\* C9: the first subtitle line is drawn at band top + padding + title height
\* + 8, the second at the first line's y + the first line's height + 4.
C9_SubtitleStacking ==
  out # None =>
    /\ out.line_pos[1][2] = out.band.y0 + 18 + out.title_h + 8
    /\ out.line_pos[2][2] = out.line_pos[1][2] + out.line_h[1] + 4

\* C10 as stated: the inset is pasted at x = 12, raised above the band's top
\* edge by half the height of the pasted (bordered) inset.
C10_InsetCenteredOnBandTop ==
  (out # None /\ out.inset # None) =>
    /\ out.inset.x = 12
    /\ out.inset.y = out.band.y0 - out.inset.h \div 2

\* C10 amended: the inset is pasted at x = 12, raised above the band's top
\* edge by half the thumbnail's own height rounded down; the pasted inset is
\* the thumbnail plus a 4-pixel border on every side.
C10_InsetRaisedByHalfThumbnail ==
  (out # None /\ out.inset # None) =>
    /\ out.inset.x = 12
    /\ out.band.y0 - out.inset.y >= 0
    /\ 2 * (out.band.y0 - out.inset.y) \in {out.inset.thumb_h, out.inset.thumb_h - 1}
    /\ out.inset.h = out.inset.thumb_h + 8

\* C10 witness: the 160-pixel thumbnail on the 600-row photo, pasted at y = 388.
C10_Witness ==
  /\ out # None
  /\ out.inset # None
  /\ img.h = 600
  /\ out.inset.thumb_h = 160
  /\ out.inset.y = 388

====
